---------------------------- MODULE Spec2Model ----------------------------
(* A model of obot-telegram (src/main.go): the Telegram update loop that     *)
(* fills the relay queue, the /message poll handler that drains it and       *)
(* materializes attachments, and the /send dispatch handler.                 *)
(*                                                                           *)
(* Go strings are sequences of chunks.  A chunk is one character wherever   *)
(* the code inspects characters (digits, signs, commas, blanks, dots,        *)
(* slashes) and an opaque run of characters everywhere else.                 *)
EXTENDS Integers, Sequences, FiniteSets, TLC

(***************************************************************************)
(* Bounds of the model                                                     *)
(***************************************************************************)
\* updates the platform delivers in one run (after the pre-filled ones)
MaxUpdates == 3
\* updates the platform delivers after the channel has been filled
MaxUpdatesFull == 1
\* dispatch requests (POST /send) the agent makes in one run
MaxSends == 1

(***************************************************************************)
(* Program constants                                                       *)
(***************************************************************************)
\* make(chan Message, 100)
QueueCap == 100
StatusOK == 200
StatusBadRequest == 400
StatusInternalServerError == 500

\* a nil pointer
Nil == [nil |-> TRUE]

(***************************************************************************)
(* Strings                                                                 *)
(***************************************************************************)
Digits == <<"0", "1", "2", "3", "4", "5", "6", "7", "8", "9">>

DigitChars == {Digits[i] : i \in 1..10}

DigitVal(c) == (CHOOSE i \in 1..10 : Digits[i] = c) - 1

RECURSIVE NatVal(_)
\* the value of a non-empty run of decimal digits
NatVal(s) ==
    IF Len(s) = 0 THEN 0
    ELSE 10 * NatVal(SubSeq(s, 1, Len(s) - 1)) + DigitVal(s[Len(s)])

\* strconv.ParseInt(s, 10, 64): an optional sign, then one or more digits.
\* The inputs of the model stay far inside the 64-bit range.
ParseInt(s) ==
    LET body == IF Len(s) > 0 /\ s[1] \in {"+", "-"} THEN Tail(s) ELSE s
    IN  IF Len(body) = 0 \/ \E i \in 1..Len(body) : body[i] \notin DigitChars
        THEN [err |-> TRUE, val |-> 0]
        ELSE [err |-> FALSE,
              val |-> IF s[1] = "-" THEN 0 - NatVal(body) ELSE NatVal(body)]

\* variant: the error of the conversion is ignored
Atoi_ErrorIgnored(s) == [err |-> FALSE, val |-> 0]

\* strconv.Atoi(s): ParseInt at the platform's int width
Atoi(s) == ParseInt(s)

RECURSIVE NatStr(_)
NatStr(n) ==
    IF n < 10 THEN <<Digits[n + 1]>>
    ELSE NatStr(n \div 10) \o <<Digits[(n % 10) + 1]>>

\* fmt.Sprintf("%d", n)
Itoa(n) == IF n < 0 THEN <<"-">> \o NatStr(0 - n) ELSE NatStr(n)

RECURSIVE Split(_, _)
\* strings.Split(s, sep) for a one-character separator: always at least one field
Split(s, sep) ==
    IF \A i \in 1..Len(s) : s[i] # sep THEN <<s>>
    ELSE LET k == CHOOSE i \in 1..Len(s) :
                      s[i] = sep /\ \A j \in 1..(i - 1) : s[j] # sep
         IN  <<SubSeq(s, 1, k - 1)>> \o Split(SubSeq(s, k + 1, Len(s)), sep)

RECURSIVE TrimSpace(_)
\* strings.TrimSpace(s)
TrimSpace(s) ==
    IF Len(s) > 0 /\ s[1] = " " THEN TrimSpace(Tail(s))
    ELSE IF Len(s) > 0 /\ s[Len(s)] = " " THEN TrimSpace(SubSeq(s, 1, Len(s) - 1))
    ELSE s

\* filepath.Ext(path): the suffix from the last dot of the last path element
Ext(path) ==
    LET dots == {i \in 1..Len(path) :
                     path[i] = "." /\ \A j \in (i + 1)..Len(path) : path[j] \notin {".", "/"}}
    IN  IF dots = {} THEN <<>>
        ELSE SubSeq(path, CHOOSE i \in dots : TRUE, Len(path))


(***************************************************************************)
(* The environment: configuration, senders and platform events             *)
(***************************************************************************)
\* TELEGRAM_BOT_ALLOWED_USERIDS = "42, " and TELEGRAM_BOT_ALLOWED_USERNAMES = " alice,"
EnvGood ==
    [ids   |-> <<"4", "2", ",", " ">>,
     names |-> <<" ", "alice", ",">>,
     token |-> <<"tok">>]

\* TELEGRAM_BOT_ALLOWED_USERIDS = "42,x": the second entry is no integer
EnvBadID ==
    [ids   |-> <<"4", "2", ",", "x">>,
     names |-> <<"alice">>,
     token |-> <<"tok">>]

Envs == {EnvGood, EnvBadID}

\* telegram.User values: allowed by ID only, allowed by name only, allowed by neither
UserByID == [ID |-> 42, UserName |-> <<"bob">>, FirstName |-> <<"B">>, LastName |-> <<"O">>]

UserByName == [ID |-> 7, UserName |-> <<"alice">>, FirstName |-> <<"A">>, LastName |-> <<"L">>]

UserOther == [ID |-> 9, UserName |-> <<"eve">>, FirstName |-> <<"E">>, LastName |-> <<"V">>]

\* update.SentFrom() is nil when the message has no From (e.g. a channel message)
Senders == {Nil, UserByID, UserByName, UserOther}

\* the kinds of update: no message payload, a text message, a message with
\* neither text nor media (a sticker, a location), a voice note, a photo
UpdateKinds == {"none", "text", "other", "voice", "photo"}

\* bot.GetFile: an error, or the file's path on the platform
GetFileResults == {"err", "ok"}

\* the updates the platform delivers, each with the result bot.GetFile has
\* for its file if asked: each kind of message from a sender that is allowed
\* and from one that is not, and the files of allowed senders resolved or not
Deliveries ==
    {<<"none", Nil, "ok">>,
     <<"text", UserByID, "ok">>, <<"text", UserOther, "ok">>, <<"text", Nil, "ok">>,
     <<"voice", UserByID, "ok">>, <<"voice", UserByID, "err">>, <<"voice", UserOther, "ok">>,
     <<"other", UserByName, "ok">>, <<"other", Nil, "ok">>,
     <<"photo", UserByName, "ok">>, <<"photo", UserByName, "err">>,
     <<"photo", UserOther, "ok">>}

\* the update of kind k from sender, the n-th of the run
Update(k, sender, n) ==
    IF k = "none" THEN [Message |-> Nil]
    ELSE [Message |->
            [From      |-> sender,
             Chat      |-> [ID |-> 5],
             MessageID |-> n,
             Text      |-> IF k = "text" THEN <<"hi">> ELSE <<>>,
             Voice     |-> IF k = "voice" THEN [FileID |-> <<"v">>] ELSE Nil,
             Photo     |-> IF k = "photo"
                           THEN <<[FileID |-> <<"small">>], [FileID |-> <<"large">>]>>
                           ELSE <<>>]]

GetFile(fileID, res) ==
    IF res = "err" THEN [err |-> TRUE, FilePath |-> <<>>]
    ELSE [err |-> FALSE,
          FilePath |-> IF fileID = <<"v">>
                       THEN <<"voice", "/", "file_1", ".", "oga">>
                       ELSE <<"photos", "/">> \o fileID \o <<".", "jpg">>]

\* File.Link(token)
Link(filePath, token) ==
    <<"https://api.telegram.org/file/bot">> \o token \o <<"/">> \o filePath

(***************************************************************************)
(* State                                                                   *)
(***************************************************************************)
VARIABLES
    env,               \* the process environment (os.Getenv)
    mainPc,            \* where main() is: "new", "parseIDs", "parseNames", "serve",
                       \* then in the update loop "recv" (waiting for an update),
                       \* "nomsg", "unauth", "nofile" (at a continue), "send" (at the
                       \* channel send); or "exited", "panicked"
    allowedUserIDs,    \* map[int64]struct{}
    allowedUserNames,  \* map[string]struct{}
    messageQueue,      \* the buffered channel, oldest first
    m,                 \* the record the update loop is about to send, or Nil
    nUpdates,          \* updates received so far
    budget,            \* updates the platform still delivers in this run
    enqueued,          \* history: every item the update loop put on the channel
    polls,             \* the /message requests: position, current record, response
    sends,             \* the number of /send requests made so far
    lastSend,          \* the latest /send request with its response, or Nil
    botCalls,          \* the bot.Send calls of the latest /send request, each with
                       \* its result
    uuidCtr,           \* uuid.NewString() draws so far
    fetches,           \* history: the item of every http.Get of uploadToWs
    workspace,         \* the files written by WriteFileInWorkspace
    authCall           \* the last direct isAuthorized call and its result

vars == <<env, mainPc, allowedUserIDs, allowedUserNames, messageQueue, m, nUpdates,
          budget, enqueued, polls, sends, lastSend, botCalls, uuidCtr, fetches, workspace,
          authCall>>

\* the poll requests (GET /message) of a run: two, which may overlap
Pollers == {1, 2}

\* variant: the server handles no request while a materialization is in flight
Serving_OneAtATime ==
    /\ mainPc \in {"recv", "nomsg", "unauth", "nofile", "send"}
    /\ \A p \in Pollers : polls[p].pc # "upload"

\* the process is running its update loop, and its HTTP server with it
Serving == mainPc \in {"recv", "nomsg", "unauth", "nofile", "send"}

\* an http.ResponseWriter before the handler touched it
NoResponse == [status |-> 0, body |-> <<>>]

IdlePoll == [pc |-> "idle", msg |-> Nil, resp |-> NoResponse]

Init ==
    /\ env \in Envs
    /\ mainPc = "new"
    /\ allowedUserIDs = {}
    /\ allowedUserNames = {}
    /\ messageQueue = <<>>
    /\ m = Nil
    /\ nUpdates = 0
    /\ budget = MaxUpdates
    /\ enqueued = <<>>
    /\ polls = [p \in Pollers |-> IdlePoll]
    /\ sends = 0
    /\ lastSend = Nil
    /\ botCalls = <<>>
    /\ uuidCtr = 0
    /\ fetches = <<>>
    /\ workspace = {}
    /\ authCall = Nil

(***************************************************************************)
(* Startup: main() up to the update loop                                   *)
(***************************************************************************)
\* telegram.NewBotAPI and gptscript.NewGPTScript: either may fail, which is fatal
CreateClients ==
    /\ mainPc = "new"
    /\ \E ok \in BOOLEAN : mainPc' = IF ok THEN "parseIDs" ELSE "exited"
    /\ UNCHANGED <<env, allowedUserIDs, allowedUserNames, messageQueue, m, nUpdates,
                   budget, enqueued, polls, sends, lastSend, botCalls, uuidCtr, fetches,
                   workspace, authCall>>

\* variant: an entry that is no integer is skipped instead of being fatal
ParseIDs_SkipBad(fields, acc) ==
    [err |-> FALSE,
     ids |-> acc \cup {ParseInt(TrimSpace(fields[i])).val :
                         i \in {j \in 1..Len(fields) : ~ParseInt(TrimSpace(fields[j])).err}}]

RECURSIVE ParseIDs(_, _)
\* the loop over the allowed IDs: the set built, and whether a bad entry ended it
ParseIDs(fields, acc) ==
    IF fields = <<>> THEN [err |-> FALSE, ids |-> acc]
    ELSE LET u == TrimSpace(Head(fields))
         IN  IF u = <<>> THEN ParseIDs(Tail(fields), acc)
             ELSE IF ParseInt(u).err THEN [err |-> TRUE, ids |-> acc]
             ELSE ParseIDs(Tail(fields), acc \cup {ParseInt(u).val})

LoadAllowedIDs ==
    /\ mainPc = "parseIDs"
    /\ LET r == ParseIDs(Split(env.ids, ","), allowedUserIDs)
       IN  /\ allowedUserIDs' = r.ids
           /\ mainPc' = IF r.err THEN "exited" ELSE "parseNames"
    /\ UNCHANGED <<env, allowedUserNames, messageQueue, m, nUpdates, budget, enqueued,
                   polls, sends, lastSend, botCalls, uuidCtr, fetches, workspace, authCall>>

\* the loop over the allowed names
ParseNames(fields) ==
    {TrimSpace(fields[i]) : i \in 1..Len(fields)} \ {<<>>}

LoadAllowedNames ==
    /\ mainPc = "parseNames"
    /\ allowedUserNames' = allowedUserNames \cup ParseNames(Split(env.names, ","))
    /\ mainPc' = "serve"
    /\ UNCHANGED <<env, allowedUserIDs, messageQueue, m, nUpdates, budget, enqueued,
                   polls, sends, lastSend, botCalls, uuidCtr, fetches, workspace, authCall>>

\* the handlers are registered, the server goroutine is started (a failure to
\* listen is fatal) and the update channel is opened
StartServer ==
    /\ mainPc = "serve"
    /\ \E ok \in BOOLEAN : mainPc' = IF ok THEN "recv" ELSE "exited"
    /\ UNCHANGED <<env, allowedUserIDs, allowedUserNames, messageQueue, m, nUpdates,
                   budget, enqueued, polls, sends, lastSend, botCalls, uuidCtr, fetches,
                   workspace, authCall>>

(***************************************************************************)
(* The Authorization Gate                                                  *)
(***************************************************************************)
\* variant: any sender that is present passes
isAuthorized_AnySender(user) == user # Nil

\* variant: the ID and the name must both be listed
isAuthorized_BothNeeded(user) ==
    IF user = Nil THEN FALSE
    ELSE user.ID \in allowedUserIDs /\ user.UserName \in allowedUserNames

isAuthorized(user) ==
    IF user = Nil THEN FALSE
    ELSE IF user.ID \in allowedUserIDs THEN TRUE
    ELSE IF user.UserName \in allowedUserNames THEN TRUE
    ELSE FALSE

\* the senders of the gate's truth table: absent, or any ID with any name
AuthUsers ==
    {Nil} \cup {[ID |-> i, UserName |-> n, FirstName |-> <<"F">>, LastName |-> <<"L">>] :
                  i \in {42, 7, 9}, n \in {<<"alice">>, <<"bob">>, <<"eve">>}}

\* user := update.SentFrom(); isAuthorized(user): one call of the gate
AuthCheck ==
    /\ Serving
    /\ \E user \in AuthUsers :
         authCall' = [user |-> user, result |-> isAuthorized(user)]
    /\ UNCHANGED <<env, mainPc, allowedUserIDs, allowedUserNames, messageQueue, m,
                   nUpdates, budget, enqueued, polls, sends, lastSend, botCalls, uuidCtr, fetches,
                   workspace>>

(***************************************************************************)
(* The update loop (Inbound Listener)                                      *)
(***************************************************************************)
\* update.SentFrom(), for an update that carries a message
SentFrom(update) == update.Message.From

\* the record built for an update, before any attachment is resolved
NewRecord(update, user) ==
    [ChatID   |-> Itoa(update.Message.Chat.ID),
     MsgID    |-> Itoa(update.Message.MessageID),
     Text     |-> update.Message.Text,
     User     |-> user.FirstName \o <<" ">> \o user.LastName
                    \o <<" (">> \o user.UserName \o <<")">>,
     VoiceURL |-> <<>>,
     ImageURL |-> <<>>,
     FileExt  |-> <<>>]

\* the body of the update loop for one update, up to the statement it
\* reaches: a continue ("nomsg", "unauth", "nofile"), a nil dereference
\* ("panicked") or the channel send ("send", with the record)
HandleUpdate(update, fileRes) ==
    IF update.Message = Nil THEN [do |-> "nomsg"]
    ELSE
    LET user == SentFrom(update) IN
    IF ~isAuthorized(user)
    THEN \* slog.Warn reads user.ID and user.UserName
         IF user = Nil THEN [do |-> "panicked"] ELSE [do |-> "unauth"]
    ELSE
    LET m0 == NewRecord(update, user)
        vf == IF update.Message.Voice # Nil
              THEN GetFile(update.Message.Voice.FileID, fileRes)
              ELSE [err |-> FALSE, FilePath |-> <<>>]
        m1 == IF update.Message.Voice # Nil
              THEN [m0 EXCEPT !.VoiceURL = Link(vf.FilePath, env.token),
                              !.FileExt = Ext(vf.FilePath)]
              ELSE m0
        pf == IF update.Message.Photo # <<>>
              THEN GetFile(update.Message.Photo[1].FileID, fileRes)
              ELSE [err |-> FALSE, FilePath |-> <<>>]
        m2 == IF update.Message.Photo # <<>>
              THEN [m1 EXCEPT !.ImageURL = Link(pf.FilePath, env.token),
                              !.FileExt = Ext(pf.FilePath)]
              ELSE m1
    IN  IF vf.err THEN [do |-> "nofile"]
        ELSE IF pf.err THEN [do |-> "nofile"]
        ELSE [do |-> "send", msg |-> m2]

\* an item of the channel: the Message, and, as history, the number of the
\* update it was built from and that update's sender
Item(msg, n, user) == [msg |-> msg, uid |-> n, from |-> user]

\* one iteration of `for update := range updates`, up to the channel send
Receive ==
    /\ mainPc = "recv"
    /\ budget > 0
    /\ \E d \in Deliveries :
         LET update == Update(d[1], d[2], nUpdates + 1)
             r == HandleUpdate(update, d[3])
         IN  /\ mainPc' = r.do
             /\ m' = IF r.do = "send" THEN Item(r.msg, nUpdates + 1, SentFrom(update))
                     ELSE Nil
    /\ nUpdates' = nUpdates + 1
    /\ budget' = budget - 1
    /\ UNCHANGED <<env, allowedUserIDs, allowedUserNames, messageQueue, enqueued, polls,
                   sends, lastSend, botCalls, uuidCtr, fetches, workspace, authCall>>

\* continue: back to the head of the loop
Continue ==
    /\ mainPc \in {"nomsg", "unauth", "nofile"}
    /\ mainPc' = "recv"
    /\ UNCHANGED <<env, allowedUserIDs, allowedUserNames, messageQueue, m, nUpdates,
                   budget, enqueued, polls, sends, lastSend, botCalls, uuidCtr, fetches,
                   workspace, authCall>>

\* variant: a channel without a capacity
CanSend_Unbounded(queue) == TRUE

\* a send on the buffered channel can proceed while the buffer has room
CanSend(queue) == Len(queue) < QueueCap

\* variant: the sent element is buffered twice
ChanSend_Twice(queue, x) == Append(Append(queue, x), x)

\* the channel after a send of x
ChanSend(queue, x) == Append(queue, x)

\* variant: the newest element is received first
ChanRecv_Lifo(queue) ==
    [item |-> queue[Len(queue)], rest |-> SubSeq(queue, 1, Len(queue) - 1)]

\* variant: the received element stays on the channel
ChanRecv_Peek(queue) == [item |-> Head(queue), rest |-> queue]

\* variant: a receive also discards the element behind the received one
ChanRecv_TakesTwo(queue) ==
    [item |-> Head(queue),
     rest |-> IF Len(queue) > 1 THEN Tail(Tail(queue)) ELSE <<>>]

\* a receive from the channel: the oldest element, and the channel after it
ChanRecv(queue) == [item |-> Head(queue), rest |-> Tail(queue)]

\* messageQueue <- m: blocks while the channel's buffer is full.  The update
\* channel is never closed by this program, so the loop has no other exit.
Enqueue ==
    /\ mainPc = "send"
    /\ CanSend(messageQueue)
    /\ messageQueue' = ChanSend(messageQueue, m)
    /\ enqueued' = Append(enqueued, m)
    /\ m' = Nil
    /\ mainPc' = "recv"
    /\ UNCHANGED <<env, allowedUserIDs, allowedUserNames, nUpdates, budget, polls,
                   sends, lastSend, botCalls, uuidCtr, fetches, workspace, authCall>>

(***************************************************************************)
(* The response of a handler (net/http)                                    *)
(***************************************************************************)
\* w.Write(data): the first write commits the header with status 200
Write(resp, data) ==
    [status |-> IF resp.status = 0 THEN StatusOK ELSE resp.status,
     body   |-> Append(resp.body, data)]

\* http.Error(w, text, code): WriteHeader(code), which has no effect once the
\* header is committed, then the text and a newline
HttpError(resp, text, code) ==
    [status |-> IF resp.status = 0 THEN code ELSE resp.status,
     body   |-> Append(resp.body, [kind |-> "text", text |-> text \o <<"\n">>])]

\* the status the client receives when the handler returns
FinalStatus(resp) == IF resp.status = 0 THEN StatusOK ELSE resp.status

(***************************************************************************)
(* The Attachment Materializer                                             *)
(***************************************************************************)
\* what the network and the workspace do during one uploadToWs call: the
\* connection fails, the server answers with an error status, the body cannot
\* be read, the workspace write fails, or all goes well
NetResults == {"connErr", "non2xx", "readErr", "writeErr", "ok"}

\* uploadToWs(ctx, gClient, url, ext) with the id-th uuid: the path and error
\* returned, the content written to the workspace (or Nil if none)
uploadToWs(url, ext, id, net) ==
    LET path == <<"uuid">> \o Itoa(id) \o ext IN
    IF net = "connErr" THEN [path |-> path, err |-> TRUE, wrote |-> Nil]
    ELSE IF net = "readErr" THEN [path |-> path, err |-> TRUE, wrote |-> Nil]
    ELSE IF net = "writeErr" THEN [path |-> path, err |-> TRUE, wrote |-> Nil]
    ELSE [path  |-> path,
          err   |-> FALSE,
          wrote |-> [path |-> path,
                     data |-> IF net = "non2xx" THEN "error page" ELSE "media",
                     url  |-> url]]

(***************************************************************************)
(* The poll handler (GET /message)                                         *)
(***************************************************************************)
\* fmt.Sprintf("%s", msg) of a Message: its fields in declaration order
Sprint(msg) ==
    <<"{">> \o msg.User \o <<" ">> \o msg.ChatID \o <<" ">> \o msg.MsgID \o <<" ">>
        \o msg.Text \o <<" ">> \o msg.VoiceURL \o <<" ">> \o msg.ImageURL \o <<" ">>
        \o msg.FileExt \o <<"}">>

\* the text of a message whose attachment was stored at path
Annotate(msg, what, path) ==
    <<"<INFO>This message contains ", what,
      " file which you can find in the workspace at ">> \o path
        \o <<"<INFO>\n<MESSAGE>">> \o Sprint(msg) \o <<"</MESSAGE>">>

\* json.Marshal(msg): chatId and text always, the other fields unless empty.
\* Marshalling a struct of strings cannot fail.
Marshal(msg) ==
    LET keys == {"chatId", "text"}
                  \cup (IF msg.User # <<>> THEN {"user"} ELSE {})
                  \cup (IF msg.MsgID # <<>> THEN {"msgId"} ELSE {})
                  \cup (IF msg.VoiceURL # <<>> THEN {"voiceURL"} ELSE {})
                  \cup (IF msg.ImageURL # <<>> THEN {"imageURL"} ELSE {})
                  \cup (IF msg.FileExt # <<>> THEN {"fileExt"} ELSE {})
    IN  [k \in keys |->
            CASE k = "chatId" -> msg.ChatID
              [] k = "text" -> msg.Text
              [] k = "user" -> msg.User
              [] k = "msgId" -> msg.MsgID
              [] k = "voiceURL" -> msg.VoiceURL
              [] k = "imageURL" -> msg.ImageURL
              [] k = "fileExt" -> msg.FileExt]

\* a serialized record in a response body, with the item's history fields
JsonEntry(item) ==
    [kind |-> "json", json |-> Marshal(item.msg), uid |-> item.uid, from |-> item.from]

\* variant: an empty body instead of the notice
NoMessages_Blank == [kind |-> "text", text |-> <<>>]

NoMessages == [kind |-> "text", text |-> <<"No messages\n">>]

\* case msg := <-messageQueue: a record is received; one without attachment
\* is serialized and written at once
PollDequeue(p) ==
    /\ Serving
    /\ polls[p].pc \in {"idle", "select"}
    /\ messageQueue # <<>>
    /\ LET item == ChanRecv(messageQueue).item IN
       /\ messageQueue' = ChanRecv(messageQueue).rest
       /\ polls' = [polls EXCEPT ![p] =
            IF item.msg.VoiceURL # <<>> \/ item.msg.ImageURL # <<>>
            THEN [pc |-> "upload", msg |-> item, resp |-> polls[p].resp]
            ELSE [pc |-> "select", msg |-> Nil,
                  resp |-> Write(polls[p].resp, JsonEntry(item))]]
    /\ UNCHANGED <<env, mainPc, allowedUserIDs, allowedUserNames, m, nUpdates, budget,
                   enqueued, sends, lastSend, botCalls, uuidCtr, fetches, workspace, authCall>>

\* default: the channel is empty, the handler writes the notice and returns
PollEmpty(p) ==
    /\ Serving
    /\ polls[p].pc \in {"idle", "select"}
    /\ messageQueue = <<>>
    /\ polls' = [polls EXCEPT ![p] =
            [pc |-> "done", msg |-> Nil, resp |-> Write(polls[p].resp, NoMessages)]]
    /\ UNCHANGED <<env, mainPc, allowedUserIDs, allowedUserNames, messageQueue, m,
                   nUpdates, budget, enqueued, sends, lastSend, botCalls, uuidCtr, fetches,
                   workspace, authCall>>

\* the attachment of the received record is materialized; on success the text
\* is rewritten and the record serialized, on failure the handler returns
PollUpload(p) ==
    /\ Serving
    /\ polls[p].pc = "upload"
    /\ \E net \in NetResults :
         LET item  == polls[p].msg
             msg   == item.msg
             voice == msg.VoiceURL # <<>>
             r     == uploadToWs(IF voice THEN msg.VoiceURL ELSE msg.ImageURL,
                                 msg.FileExt, uuidCtr + 1, net)
             done  == [msg EXCEPT !.Text =
                          Annotate(msg, IF voice THEN "a voice" ELSE "an image", r.path)]
         IN  /\ fetches' = Append(fetches, item.uid)
             /\ workspace' = IF r.wrote = Nil THEN workspace ELSE workspace \cup {r.wrote}
             /\ polls' = [polls EXCEPT ![p] =
                  IF r.err
                  THEN [pc |-> "done", msg |-> Nil,
                        resp |-> HttpError(polls[p].resp,
                                   IF voice THEN <<"Failed to upload voice file">>
                                   ELSE <<"Failed to upload image file">>,
                                   StatusInternalServerError)]
                  ELSE [pc |-> "select", msg |-> Nil,
                        resp |-> Write(polls[p].resp,
                                       JsonEntry([item EXCEPT !.msg = done]))]]
    /\ uuidCtr' = uuidCtr + 1
    /\ UNCHANGED <<env, mainPc, allowedUserIDs, allowedUserNames, messageQueue, m,
                   nUpdates, budget, enqueued, sends, lastSend, botCalls, authCall>>

(***************************************************************************)
(* The dispatch handler (POST /send)                                       *)
(***************************************************************************)
Str(v) == [t |-> "string", v |-> v]

Num(v) == [t |-> "number", v |-> v]

\* the request bodies the agent sends: one that cannot be read, one that is
\* no JSON, and JSON objects
SendBodies ==
    {[kind |-> "unreadable"],
     [kind |-> "malformed"],
     [kind |-> "json", obj |-> [chatId |-> Str(<<"1", "2", "3">>), text |-> Str(<<"hi">>)]],
     [kind |-> "json", obj |-> [chatId |-> Str(<<"a", "b", "c">>), text |-> Str(<<"hi">>)]],
     [kind |-> "json", obj |-> [chatId |-> Num(<<"1", "2", "3">>), text |-> Str(<<"hi">>)]],
     [kind |-> "json", obj |-> [text |-> Str(<<"hi">>)]],
     [kind |-> "json", obj |-> [chatId |-> Str(<<"1", "2", "3">>), text |-> Str(<<"hi">>),
                                msgId |-> Str(<<"7">>)]],
     [kind |-> "json", obj |-> [chatId |-> Str(<<"1", "2", "3">>), text |-> Str(<<"hi">>),
                                msgId |-> Str(<<"x">>)]],
     [kind |-> "json", obj |-> [chatId |-> Str(<<"1", "2", "3">>), text |-> Str(<<"hi">>),
                                msgId |-> Str(<<"0">>)]]}

\* the JSON keys of Message's fields
JsonKeys == {"user", "chatId", "msgId", "text", "voiceURL", "imageURL", "fileExt"}

\* json.Unmarshal(bodyBytes, &req): a key that is absent leaves its field
\* empty, a value that is no string is an error
Unmarshal(body) ==
    LET field(k) == IF body.kind = "json" /\ k \in DOMAIN body.obj /\ body.obj[k].t = "string"
                    THEN body.obj[k].v ELSE <<>>
    IN  [err |-> \/ body.kind # "json"
                 \/ \E k \in JsonKeys \cap DOMAIN body.obj : body.obj[k].t # "string",
         req |-> [User     |-> field("user"),
                  ChatID   |-> field("chatId"),
                  MsgID    |-> field("msgId"),
                  Text     |-> field("text"),
                  VoiceURL |-> field("voiceURL"),
                  ImageURL |-> field("imageURL"),
                  FileExt  |-> field("fileExt")]]

\* variant: the message is built without its text
NewMessage_NoText(chatID, text) == [ChatID |-> chatID, Text |-> <<>>, ReplyToMessageID |-> 0]

\* telegram.NewMessage(chatID, text)
NewMessage(chatID, text) == [ChatID |-> chatID, Text |-> text, ReplyToMessageID |-> 0]

\* bot.Send succeeds or fails (a result is drawn only for a request that
\* reaches the call)
SendResults == {"ok", "err"}

\* the handler for one request: its response, and the bot.Send calls it made
HandleSend(body, sendRes) ==
    IF body.kind = "unreadable"
    THEN [resp  |-> HttpError(NoResponse, <<"Failed to read request body">>, StatusBadRequest),
          calls |-> <<>>]
    ELSE
    LET u == Unmarshal(body) IN
    IF u.err
    THEN [resp  |-> HttpError(NoResponse, <<"Failed to parse request">>, StatusBadRequest),
          calls |-> <<>>]
    ELSE
    LET chatID == ParseInt(u.req.ChatID) IN
    IF chatID.err
    THEN [resp  |-> HttpError(NoResponse, <<"Invalid chat ID">>, StatusBadRequest),
          calls |-> <<>>]
    ELSE
    LET msg0  == NewMessage(chatID.val, u.req.Text)
        msgID == Atoi(u.req.MsgID)
        msg   == IF u.req.MsgID # <<>>
                 THEN [msg0 EXCEPT !.ReplyToMessageID = msgID.val]
                 ELSE msg0
    IN  IF u.req.MsgID # <<>> /\ msgID.err
        THEN [resp  |-> HttpError(NoResponse, <<"Invalid Message ID">>, StatusBadRequest),
              calls |-> <<>>]
        ELSE [resp  |-> IF sendRes = "err"
                        THEN HttpError(NoResponse, <<"Failed to send Message">>,
                                       StatusInternalServerError)
                        ELSE NoResponse,
              calls |-> <<msg>>]

\* one /send request, from its arrival to its response
Send ==
    /\ Serving
    /\ sends < MaxSends
    /\ \E body \in SendBodies :
       \E sendRes \in IF HandleSend(body, "ok").calls = <<>> THEN {"ok"} ELSE SendResults :
         LET r == HandleSend(body, sendRes)
         IN  /\ lastSend' = [body |-> body, status |-> FinalStatus(r.resp),
                             text |-> r.resp.body]
             /\ botCalls' = [i \in 1..Len(r.calls) |->
                               [msg |-> r.calls[i], res |-> sendRes]]
    /\ sends' = sends + 1
    /\ UNCHANGED <<env, mainPc, allowedUserIDs, allowedUserNames, messageQueue, m,
                   nUpdates, budget, enqueued, polls, uuidCtr, fetches, workspace,
                   authCall>>

\* main() before the update loop
Startup ==
    \/ CreateClients
    \/ LoadAllowedIDs
    \/ LoadAllowedNames
    \/ StartServer

\* the update loop and the HTTP handlers
Running ==
    \/ Receive
    \/ Continue
    \/ Enqueue
    \/ \E p \in Pollers : PollDequeue(p)
    \/ \E p \in Pollers : PollEmpty(p)
    \/ \E p \in Pollers : PollUpload(p)
    \/ Send

Next == Startup \/ Running

Spec == Init /\ [][Next]_vars

(***************************************************************************)
(* The same program observed from a state in which the channel is full:   *)
(* the process started with EnvGood, every poll request but the first      *)
(* was made and answered before the first update arrived, and QueueCap     *)
(* text messages of an allowed sender were then enqueued.                  *)
(***************************************************************************)
FullItem(n) ==
    LET update == Update("text", UserByID, n)
    IN  Item(NewRecord(update, UserByID), n, UserByID)

InitFull ==
    /\ env = EnvGood
    /\ mainPc = "recv"
    /\ allowedUserIDs = {42}
    /\ allowedUserNames = {<<"alice">>}
    /\ messageQueue = [n \in 1..QueueCap |-> FullItem(n)]
    /\ m = Nil
    /\ nUpdates = QueueCap
    /\ budget = MaxUpdatesFull
    /\ enqueued = messageQueue
    /\ polls = [p \in Pollers |->
                  IF p = 1 THEN IdlePoll
                  ELSE [pc |-> "done", msg |-> Nil, resp |-> Write(NoResponse, NoMessages)]]
    /\ sends = 0
    /\ lastSend = Nil
    /\ botCalls = <<>>
    /\ uuidCtr = 0
    /\ fetches = <<>>
    /\ workspace = {}
    /\ authCall = Nil

SpecFull == InitFull /\ [][Running]_vars

(***************************************************************************)
(* The Authorization Gate on its own: the process is serving with any      *)
(* allow-list a configuration can produce, and the gate is called with     *)
(* any sender.                                                             *)
(***************************************************************************)
InitAuth ==
    /\ env = EnvGood
    /\ mainPc = "recv"
    /\ allowedUserIDs \in SUBSET {42, 7}
    /\ allowedUserNames \in SUBSET {<<"alice">>, <<"bob">>}
    /\ messageQueue = <<>>
    /\ m = Nil
    /\ nUpdates = 0
    /\ budget = 0
    /\ enqueued = <<>>
    /\ polls = [p \in Pollers |-> IdlePoll]
    /\ sends = 0
    /\ lastSend = Nil
    /\ botCalls = <<>>
    /\ uuidCtr = 0
    /\ fetches = <<>>
    /\ workspace = {}
    /\ authCall = Nil

SpecAuth == InitAuth /\ [][AuthCheck]_vars

(***************************************************************************)
(* The running process, observed either right after a start with EnvGood   *)
(* (nothing received yet, no request made) or with its channel full.       *)
(***************************************************************************)
InitServing ==
    /\ env = EnvGood
    /\ mainPc = "recv"
    /\ allowedUserIDs = {42}
    /\ allowedUserNames = {<<"alice">>}
    /\ messageQueue = <<>>
    /\ m = Nil
    /\ nUpdates = 0
    /\ budget = MaxUpdates
    /\ enqueued = <<>>
    /\ polls = [p \in Pollers |-> IdlePoll]
    /\ sends = 0
    /\ lastSend = Nil
    /\ botCalls = <<>>
    /\ uuidCtr = 0
    /\ fetches = <<>>
    /\ workspace = {}
    /\ authCall = Nil

SpecRunning == (InitServing \/ InitFull) /\ [][Running]_vars

(***************************************************************************)
(* Properties                                                              *)
(***************************************************************************)
\* the literal notice of the poll endpoint, as the interface states it
NoMessagesText == [kind |-> "text", text |-> <<"No messages\n">>]

\* the serialized records of a response body, in the order written
JsonEntries(body) == SelectSeq(body, LAMBDA e : e.kind = "json")

\* the error texts a poll response carries after a failed materialization
UploadErrors(body) ==
    SelectSeq(body, LAMBDA e : e.kind = "text" /\ e # NoMessagesText)

\* the records poll p has received from the channel so far: each one is
\* being materialized, was serialized, or failed
Drained(p) ==
    Len(JsonEntries(polls[p].resp.body)) + Len(UploadErrors(polls[p].resp.body))
      + (IF polls[p].pc = "upload" THEN 1 ELSE 0)

HasNotice(p) ==
    \E i \in 1..Len(polls[p].resp.body) : polls[p].resp.body[i] = NoMessagesText

\* C1: the response of a finished poll carries the text "No messages\n" if
\* and only if that poll drained no record.
C1_NoticeIffNothingDrained ==
    \A p \in Pollers :
        polls[p].pc = "done" => (HasNotice(p) <=> Drained(p) = 0)

\* C2: a poll during which a materialization failed ends with status 500,
\* wherever the failing record stood in the batch.
C2_UploadFailureGives500 ==
    \A p \in Pollers :
        (polls[p].pc = "done" /\ Len(UploadErrors(polls[p].resp.body)) > 0)
            => FinalStatus(polls[p].resp) = StatusInternalServerError

\* C3: no event stops the update loop: whatever update it has handled, the
\* loop is waiting for the next one, at a continue or at the channel send.
C3_NoEventStopsTheListener ==
    nUpdates > 0 => mainPc \in {"recv", "nomsg", "unauth", "nofile", "send"}

\* the sender is present and its ID or its name is on the allow-list
OnAllowList(user) ==
    /\ user # Nil
    /\ \/ user.ID \in allowedUserIDs
       \/ user.UserName \in allowedUserNames

\* every item that is at the channel send, on the channel, held by a poll or
\* written to a poll response
RelayItems ==
    (IF m = Nil THEN {} ELSE {m})
      \cup {messageQueue[i] : i \in 1..Len(messageQueue)}
      \cup {polls[p].msg : p \in {q \in Pollers : polls[q].msg # Nil}}

RelayedSenders ==
    {it.from : it \in RelayItems}
      \cup UNION {{JsonEntries(polls[p].resp.body)[i].from :
                      i \in 1..Len(JsonEntries(polls[p].resp.body))} : p \in Pollers}

\* C4: no record of a sender that is not on the allow-list is ever on the
\* channel or in a poll response.
C4_OnlyAuthorizedRecordsRelayed ==
    \A u \in RelayedSenders : OnAllowList(u)

\* an update of a sender off the allow-list has just been dropped while
\* records of allowed senders are on the channel and in a poll response
C4_Witness ==
    /\ mainPc = "unauth"
    /\ messageQueue # <<>>
    /\ \E p \in Pollers : Len(JsonEntries(polls[p].resp.body)) > 0

\* poll p returns in this step
Returns(p) == polls[p].pc # "done" /\ polls'[p].pc = "done"

\* C5: a poll that runs alone (no other poll request has started) and meets
\* no materialization failure returns, when it completes, exactly the records
\* enqueued so far, each once and in the order they were enqueued, and leaves
\* the channel empty.
C5_SinglePollReturnsAllInOrder ==
    [][\A p \in Pollers :
          (/\ Returns(p)
           /\ \A q \in Pollers \ {p} : polls'[q].pc = "idle"
           /\ UploadErrors(polls'[p].resp.body) = <<>>)
          => LET js == JsonEntries(polls'[p].resp.body) IN
             /\ messageQueue' = <<>>
             /\ Len(js) = Len(enqueued')
             /\ \A i \in 1..Len(js) :
                  /\ js[i].uid = enqueued'[i].uid
                  /\ js[i].json.chatId = enqueued'[i].msg.ChatID
                  /\ js[i].json.msgId = enqueued'[i].msg.MsgID
                  /\ js[i].json.user = enqueued'[i].msg.User]_vars

\* two records were enqueued, and a single poll returned both and left the
\* channel empty
C5_Witness ==
    \E p \in Pollers :
        /\ polls[p].pc = "done"
        /\ \A q \in Pollers \ {p} : polls[q].pc = "idle"
        /\ Len(enqueued) = 2
        /\ Len(JsonEntries(polls[p].resp.body)) = 2
        /\ UploadErrors(polls[p].resp.body) = <<>>
        /\ messageQueue = <<>>

\* the channel changes only by a send at its tail or by a receive at its
\* head, and a received record is held by the poll that received it
OnlySendOrReceive ==
    \/ messageQueue' = messageQueue
    \/ mainPc = "send" /\ messageQueue' = Append(messageQueue, m)
    \/ /\ messageQueue # <<>>
       /\ messageQueue' = Tail(messageQueue)
       /\ \E p \in Pollers :
            \/ polls'[p].msg = Head(messageQueue)
            \/ LET js == JsonEntries(polls'[p].resp.body)
               IN  Len(js) > 0 /\ js[Len(js)].uid = Head(messageQueue).uid

\* C6: the channel never holds more than 100 records and drops none; while
\* it holds 100 the update loop stays at its send with its record, as soon as
\* it holds fewer the send can complete, and it completes by appending the
\* record at the tail.
C6_BoundedBlockingNoDrop ==
    /\ [](/\ Len(messageQueue) <= 100
          /\ (mainPc = "send" /\ Len(messageQueue) < 100) => ENABLED Enqueue)
    /\ [][/\ (mainPc = "send" /\ Len(messageQueue) = 100)
               => (mainPc' = "send" /\ m' = m)
          /\ (mainPc = "send" /\ mainPc' # "send")
               => messageQueue' = Append(messageQueue, m)
          /\ OnlySendOrReceive]_vars

\* the channel was full, a poll received one record, and the update loop's
\* next record was appended at the tail, filling the channel again
C6_Witness ==
    /\ mainPc = "recv"
    /\ Len(enqueued) = 101
    /\ Len(messageQueue) = 100
    /\ messageQueue[100] = enqueued[101]
    /\ Drained(1) = 1

\* C7: a poll request that arrives while the channel is empty can always take
\* its step, and that step ends it: status 200, the body exactly
\* "No messages\n", no record, the channel still empty and nothing enqueued.
C7_EmptyPollAnswersAtOnce ==
    /\ [](\A p \in Pollers :
            (Serving /\ polls[p].pc = "idle" /\ messageQueue = <<>>)
                => ENABLED PollEmpty(p))
    /\ [][\A p \in Pollers :
            (polls[p].pc = "idle" /\ messageQueue = <<>> /\ polls'[p] # polls[p])
                => /\ polls'[p].pc = "done"
                   /\ FinalStatus(polls'[p].resp) = 200
                   /\ polls'[p].resp.body = <<NoMessagesText>>
                   /\ messageQueue' = <<>>
                   /\ enqueued' = enqueued]_vars

\* a poll was answered with the notice before anything was ever enqueued
C7_Witness ==
    \E p \in Pollers :
        /\ polls[p].pc = "done"
        /\ polls[p].resp = [status |-> 200, body |-> <<NoMessagesText>>]
        /\ enqueued = <<>>
        /\ messageQueue = <<>>

\* the text is a decimal integer: an optional sign and at least one digit
Numeric(s) ==
    LET d == IF Len(s) > 0 /\ s[1] \in {"+", "-"} THEN Tail(s) ELSE s
    IN  Len(d) > 0 /\ \A i \in 1..Len(d) : d[i] \in {"0", "1", "2", "3", "4", "5", "6", "7", "8", "9"}

\* the body is a JSON object whose values are strings
ValidJson(body) ==
    body.kind = "json" /\ \A k \in DOMAIN body.obj : body.obj[k].t = "string"

\* the string value of key k of a body, empty if absent
FieldOf(body, k) ==
    IF body.kind = "json" /\ k \in DOMAIN body.obj THEN body.obj[k].v ELSE <<>>

\* a request the dispatch endpoint must refuse
BadRequest(body) ==
    \/ ~ValidJson(body)
    \/ ~Numeric(FieldOf(body, "chatId"))
    \/ FieldOf(body, "msgId") # <<>> /\ ~Numeric(FieldOf(body, "msgId"))

\* C8: a dispatch request whose body is no valid JSON, whose chatId is no
\* integer or whose non-empty msgId is no integer gets a 400-class status
\* and makes no call to the platform send API.
C8_BadRequestGets400AndNoCall ==
    (lastSend # Nil /\ BadRequest(lastSend.body))
        => /\ lastSend.status \in 400..499
           /\ botCalls = <<>>

\* a request with chatId "abc" was refused with 400 and nothing was sent
C8_Witness ==
    /\ lastSend # Nil
    /\ ValidJson(lastSend.body)
    /\ FieldOf(lastSend.body, "chatId") = <<"a", "b", "c">>
    /\ lastSend.status = 400
    /\ botCalls = <<>>

\* what C9 says of a well-formed request, but for the reply-threading
SentOnce ==
    /\ Len(botCalls) = 1
    /\ botCalls[1].msg.ChatID = ParseInt(FieldOf(lastSend.body, "chatId")).val
    /\ botCalls[1].msg.Text = FieldOf(lastSend.body, "text")
    /\ lastSend.status = IF botCalls[1].res = "ok" THEN 200 ELSE 500

\* C9 as stated: a well-formed dispatch request makes exactly one call with
\* its chat target and text, answered 200 or 500 by the call's result, and
\* the call has reply-threading set if and only if a msgId was supplied.
C9_ReplySetIffMsgIdSupplied ==
    (lastSend # Nil /\ ~BadRequest(lastSend.body))
        => /\ SentOnce
           /\ (botCalls[1].msg.ReplyToMessageID # 0)
                 <=> (FieldOf(lastSend.body, "msgId") # <<>>)

\* C9 as amended: a well-formed dispatch request makes exactly one call with
\* its chat target and text, answered 200 or 500 by the call's result and
\* never repeated; the call's reply target is the integer value of msgId if
\* one was supplied and none (0) otherwise, so a msgId of value 0 sets no
\* reply-threading.  No dispatch request touches the relay queue.
C9_OneCallReplyTargetIsMsgId ==
    /\ []((lastSend # Nil /\ ~BadRequest(lastSend.body))
            => /\ SentOnce
               /\ botCalls[1].msg.ReplyToMessageID =
                    IF FieldOf(lastSend.body, "msgId") # <<>>
                    THEN ParseInt(FieldOf(lastSend.body, "msgId")).val
                    ELSE 0)
    /\ [][sends' # sends => UNCHANGED <<messageQueue, m, enqueued, polls>>]_vars

\* a request with msgId "7" made one call, threaded to message 7; the call
\* failed and the request was answered 500, with a record waiting on the channel
C9_Witness ==
    /\ lastSend # Nil
    /\ FieldOf(lastSend.body, "msgId") = <<"7">>
    /\ Len(botCalls) = 1
    /\ botCalls[1].msg.ReplyToMessageID = 7
    /\ botCalls[1].res = "err"
    /\ lastSend.status = 500
    /\ messageQueue # <<>>

\* C10: isAuthorized answers false for an absent sender and otherwise true
\* exactly when the sender's ID or the sender's name is on the allow-list,
\* and a call changes neither the allow-list nor the channel.
C10_GateTruthTable ==
    /\ [](authCall # Nil
            => authCall.result =
                 (/\ authCall.user # Nil
                  /\ \/ authCall.user.ID \in allowedUserIDs
                     \/ authCall.user.UserName \in allowedUserNames))
    /\ [][UNCHANGED <<allowedUserIDs, allowedUserNames, messageQueue>>]_vars

\* the gate passed a sender whose name is listed and whose ID is not
C10_Witness ==
    /\ authCall # Nil
    /\ authCall.user # Nil
    /\ authCall.result
    /\ authCall.user.ID \notin allowedUserIDs
    /\ authCall.user.UserName \in allowedUserNames

\* the serialized records of all poll responses
AllJson ==
    UNION {{JsonEntries(polls[p].resp.body)[i] :
               i \in 1..Len(JsonEntries(polls[p].resp.body))} : p \in Pollers}

\* uploadToWs was called for the record built from update uid
Fetched(uid) == \E i \in 1..Len(fetches) : fetches[i] = uid

\* C11: a record that a poll response carries after its attachment was
\* materialized has neither a voice nor an image locator: both fields are
\* empty, so the serialized record has no voiceURL and no imageURL.
C11_LocatorsClearedAfterMaterialization ==
    \A e \in AllJson :
        Fetched(e.uid) => /\ "voiceURL" \notin DOMAIN e.json
                          /\ "imageURL" \notin DOMAIN e.json

\* C12: every record put on the channel has a non-empty chatID, and every
\* record in a poll response has a non-empty chatId and a non-empty text.
C12_ChatIdAndTextNeverEmpty ==
    /\ \A i \in 1..Len(enqueued) : enqueued[i].msg.ChatID # <<>>
    /\ \A e \in AllJson : e.json.chatId # <<>> /\ e.json.text # <<>>

\* poll p's uploadToWs call returns in this step
UploadReturns(p) == polls[p].pc = "upload" /\ polls'[p].pc # "upload"

\* C13: a call of uploadToWs makes one fetch; it either reports an error, and
\* then has written nothing, or has written one file to the workspace, and
\* then the file is the content of a successful (2xx) fetch.
C13_MaterializeReportsEveryFailure ==
    [][\A p \in Pollers :
          UploadReturns(p)
            => /\ Len(fetches') = Len(fetches) + 1
               /\ \/ /\ polls'[p].pc = "done"
                     /\ Len(UploadErrors(polls'[p].resp.body))
                          = Len(UploadErrors(polls[p].resp.body)) + 1
                     /\ workspace' = workspace
                  \/ /\ polls'[p].pc = "select"
                     /\ \E f \in workspace' \ workspace :
                          /\ workspace' = workspace \cup {f}
                          /\ f.data = "media"]_vars

\* the entries of a comma-separated list: trimmed, the empty ones left out
Entries(s) ==
    {TrimSpace(Split(s, ",")[i]) : i \in 1..Len(Split(s, ","))} \ {<<>>}

\* the HTTP server is about to start or has started, or an update or a
\* request has been handled
Started ==
    \/ mainPc \in {"serve", "recv", "nomsg", "unauth", "nofile", "send", "panicked"}
    \/ nUpdates > 0
    \/ enqueued # <<>>
    \/ sends > 0
    \/ \E p \in Pollers : polls[p] # IdlePoll

\* C14: when the HTTP server starts and whenever an update or a request is
\* handled the allow-list holds exactly the configured IDs and names, and from
\* then on no step changes it; with an allowed-ID entry that is no integer the
\* process never starts the server, handles no request and enqueues nothing.
C14_AllowListBuiltBeforeServing ==
    /\ [](Started => /\ \A e \in Entries(env.ids) : Numeric(e)
                     /\ allowedUserIDs = {ParseInt(e).val : e \in Entries(env.ids)}
                     /\ allowedUserNames = Entries(env.names))
    /\ []((\E e \in Entries(env.ids) : ~Numeric(e))
            => /\ ~Started
               /\ messageQueue = <<>>
               /\ m = Nil)
    /\ [][Started => UNCHANGED <<allowedUserIDs, allowedUserNames>>]_vars

\* the process serves with the allow-list {42}, {alice}; a record was
\* enqueued, a poll was answered and a dispatch request was handled
C14_Witness ==
    /\ Serving
    /\ allowedUserIDs = {42}
    /\ allowedUserNames = {<<"alice">>}
    /\ enqueued # <<>>
    /\ sends = 1
    /\ \E p \in Pollers : polls[p].pc = "done"

\* the record carries a remote locator
HasLocator(item) == item.msg.VoiceURL # <<>> \/ item.msg.ImageURL # <<>>

\* C15: attachments are materialized by the poll handler only.  No record is
\* fetched twice, a fetched record had been enqueued with a locator and has
\* left the channel, and the records the update loop enqueues carry the
\* update's text and the locator, nothing fetched; a step that fetches or
\* writes to the workspace is the uploadToWs call of a poll for the record it
\* holds, and no step of the update loop fetches or writes.
C15_MaterializedOnlyAtPollTime ==
    /\ [](/\ \A i, j \in 1..Len(fetches) : fetches[i] = fetches[j] => i = j
          /\ \A i \in 1..Len(fetches) :
               /\ \E k \in 1..Len(enqueued) :
                    enqueued[k].uid = fetches[i] /\ HasLocator(enqueued[k])
               /\ \A k \in 1..Len(messageQueue) : messageQueue[k].uid # fetches[i]
          /\ m # Nil => ~Fetched(m.uid)
          /\ \A k \in 1..Len(enqueued) : enqueued[k].msg.Text \in {<<>>, <<"hi">>}
          /\ Cardinality(workspace) <= Len(fetches))
    /\ [][(fetches' # fetches \/ workspace' # workspace)
            => /\ UNCHANGED <<mainPc, m, messageQueue, enqueued, nUpdates>>
               /\ \E p \in Pollers :
                    /\ UploadReturns(p)
                    /\ fetches' = Append(fetches, polls[p].msg.uid)]_vars
    /\ [][(mainPc' # mainPc \/ enqueued' # enqueued \/ nUpdates' # nUpdates)
            => UNCHANGED <<fetches, workspace, uuidCtr>>]_vars

\* two records with a locator were enqueued and each was fetched once, in
\* order; one fetch failed, the other file is in the workspace, and every
\* poll has returned
C15_Witness ==
    /\ Len(enqueued) = 2
    /\ HasLocator(enqueued[1]) /\ HasLocator(enqueued[2])
    /\ fetches = <<enqueued[1].uid, enqueued[2].uid>>
    /\ Cardinality(workspace) = 1
    /\ messageQueue = <<>>
    /\ \A p \in Pollers : polls[p].pc = "done"

\* the process has not ended
Alive == mainPc \in {"recv", "nomsg", "unauth", "nofile", "send"}

\* the handler of poll q can take its next step (a returned poll has none)
CanStep(q) ==
    CASE polls[q].pc \in {"idle", "select"} -> ENABLED (PollDequeue(q) \/ PollEmpty(q))
      [] polls[q].pc = "upload" -> ENABLED PollUpload(q)
      [] OTHER -> TRUE

\* C16: while a poll is inside uploadToWs, the update loop can take its next
\* step (its send included, if the channel has room), every other poll can
\* take its next step, from its first to its last, and a dispatch request can
\* be handled; their steps leave the waiting poll as it is.  While the update
\* loop waits at its send on a full channel, every poll can take its next
\* step, which for one at its select is a receive, and a dispatch request can
\* be handled.
C16_HangBlocksOnlyItself ==
    /\ [](\A p \in Pollers :
            (Alive /\ polls[p].pc = "upload")
              => /\ (mainPc = "send" /\ Len(messageQueue) < QueueCap) => ENABLED Enqueue
                 /\ (mainPc = "recv" /\ budget > 0) => ENABLED Receive
                 /\ mainPc \in {"nomsg", "unauth", "nofile"} => ENABLED Continue
                 /\ \A q \in Pollers \ {p} : CanStep(q)
                 /\ sends < MaxSends => ENABLED Send)
    /\ []((mainPc = "send" /\ Len(messageQueue) = QueueCap)
            => /\ \A q \in Pollers :
                    /\ CanStep(q)
                    /\ polls[q].pc \in {"idle", "select"} => ENABLED PollDequeue(q)
               /\ sends < MaxSends => ENABLED Send)
    /\ [][\A p \in Pollers :
            polls[p].pc = "upload" => (polls'[p] = polls[p] \/ UploadReturns(p))]_vars

\* a poll is inside uploadToWs; since it received its record the other poll
\* has received a later record and returned, a dispatch request was handled
\* and the update loop has enqueued another record
C16_Witness ==
    \E p \in Pollers : \E q \in Pollers \ {p} :
        /\ polls[p].pc = "upload"
        /\ polls[q].pc = "done"
        /\ \E i \in 1..Len(JsonEntries(polls[q].resp.body)) :
             JsonEntries(polls[q].resp.body)[i].uid > polls[p].msg.uid
        /\ sends = 1
        /\ messageQueue # <<>>

\* the iterations the drain loop of poll p still has to make before it finds
\* the channel empty, if it is the only one to receive
Remaining(p) ==
    Len(messageQueue) + (IF polls[p].pc = "upload" THEN 1 ELSE 0)

\* C17: a poll request completes whatever the update loop does meanwhile:
\* once the request has begun, no step adds to the iterations its drain loop
\* still has to make, so the loop ends after at most as many iterations as
\* there were records on the channel, however the channel is refilled.
C17_PollCompletesUnderRefill ==
    [][\A p \in Pollers :
          polls[p].pc \in {"select", "upload"} => Remaining(p)' <= Remaining(p)]_vars

\* the position of the record of update uid in the order of enqueueing
Pos(uid) == CHOOSE k \in 1..Len(enqueued) : enqueued[k].uid = uid

\* the record of update uid is on the channel whose content is queue
QueueHas(queue, uid) == \E k \in 1..Len(queue) : queue[k].uid = uid

\* the record of update uid is in the response of the request poll
ResponseHas(poll, uid) ==
    \E i \in 1..Len(JsonEntries(poll.resp.body)) :
        JsonEntries(poll.resp.body)[i].uid = uid

\* the request poll has received the record of update uid and is
\* materializing it
PollHolds(poll, uid) == poll.msg # Nil /\ poll.msg.uid = uid

InQueue(uid) == QueueHas(messageQueue, uid)

InResponse(q, uid) == ResponseHas(polls[q], uid)

Holds(q, uid) == PollHolds(polls[q], uid)

\* the enqueued records whose materialization failed: fetched, held by no
\* poll and in no response
Lost ==
    {k \in 1..Len(enqueued) :
        /\ Fetched(enqueued[k].uid)
        /\ \A q \in Pollers : ~Holds(q, enqueued[k].uid) /\ ~InResponse(q, enqueued[k].uid)}

\* the error texts of all poll responses, as (poll, index) pairs
AllUploadErrors ==
    {e \in Pollers \X (1..Len(fetches)) :
        e[2] <= Len(UploadErrors(polls[e[1]].resp.body))}

\* C18: with the update loop and both polls interleaved in any way, every
\* record in a response is an enqueued record, no record is in two responses
\* or twice in one, the records of one response are in the order of
\* enqueueing, and an enqueued record that is in no response is on the
\* channel, is being materialized by the poll that received it, or is one
\* whose own materialization failed (one per reported failure); a record is
\* never in two of these places.
C18_NoDuplicationAcrossPolls ==
    /\ \A e \in AllJson :
         \E k \in 1..Len(enqueued) :
            /\ enqueued[k].uid = e.uid
            /\ e.json.chatId = enqueued[k].msg.ChatID
            /\ e.json.msgId = enqueued[k].msg.MsgID
    /\ \A p, q \in Pollers :
         \A i \in 1..Len(JsonEntries(polls[p].resp.body)) :
         \A j \in 1..Len(JsonEntries(polls[q].resp.body)) :
            JsonEntries(polls[p].resp.body)[i].uid = JsonEntries(polls[q].resp.body)[j].uid
                => (p = q /\ i = j)
    /\ \A p \in Pollers :
         \A i, j \in 1..Len(JsonEntries(polls[p].resp.body)) :
            i < j => Pos(JsonEntries(polls[p].resp.body)[i].uid)
                       < Pos(JsonEntries(polls[p].resp.body)[j].uid)
    /\ \A k \in 1..Len(enqueued) :
         LET uid == enqueued[k].uid
             places == (IF InQueue(uid) THEN {<<"queue", 0>>} ELSE {})
                         \cup {<<"held", q>> : q \in {r \in Pollers : Holds(r, uid)}}
                         \cup {<<"response", q>> : q \in {r \in Pollers : InResponse(r, uid)}}
                         \cup (IF k \in Lost THEN {<<"failed", 0>>} ELSE {})
         IN  Cardinality(places) = 1
    /\ Cardinality(Lost) = Cardinality(AllUploadErrors)

\* three records were enqueued; one poll returned the first and the third,
\* the other poll the second
C18_Witness ==
    \E p \in Pollers : \E q \in Pollers \ {p} :
        /\ Len(enqueued) = 3
        /\ polls[p].pc = "done" /\ polls[q].pc = "done"
        /\ InResponse(p, enqueued[1].uid)
        /\ InResponse(q, enqueued[2].uid)
        /\ InResponse(p, enqueued[3].uid)

\* the materialization of the record poll p holds fails in this step
FailsIn(p) == polls[p].pc = "upload" /\ polls'[p].pc = "done"

\* what C19 says of the failed record and of the records received before it:
\* the failing step takes nothing else from the channel, the failed record is
\* on the channel no more and in no response, and the response of the request
\* keeps the records it had written, all of them enqueued before the failed one
FailedRecordOnly(p) ==
    /\ messageQueue' = messageQueue
    /\ ~QueueHas(messageQueue', polls[p].msg.uid)
    /\ \A q \in Pollers : /\ ~ResponseHas(polls'[q], polls[p].msg.uid)
                          /\ ~PollHolds(polls'[q], polls[p].msg.uid)
    /\ JsonEntries(polls'[p].resp.body) = JsonEntries(polls[p].resp.body)
    /\ \A i \in 1..Len(JsonEntries(polls[p].resp.body)) :
         Pos(JsonEntries(polls[p].resp.body)[i].uid) < Pos(polls[p].msg.uid)
    /\ \A i, j \in 1..Len(messageQueue') :
         i < j => Pos(messageQueue'[i].uid) < Pos(messageQueue'[j].uid)

\* C19 as stated: when the materialization of a record fails, the records
\* enqueued after it are all on the channel, in their order, when the request
\* returns.
C19_LaterRecordsStillQueued ==
    [][\A p \in Pollers :
          FailsIn(p)
            => /\ FailedRecordOnly(p)
               /\ messageQueue' = SubSeq(enqueued', Pos(polls[p].msg.uid) + 1,
                                         Len(enqueued'))]_vars

\* C19 as amended: when the materialization of a record fails, that record
\* alone is lost by the failure: each record enqueued after it is on the
\* channel, in its order, when the request returns, unless another poll
\* request has received it meanwhile (and then it is held by that poll, in its
\* response, or failed there on its own); the records the failed request had
\* received before are in its response.  The records lost are as many as the
\* failures reported.
C19_OnlyTheFailedRecordIsLost ==
    /\ [][\A p \in Pollers :
            FailsIn(p)
              => /\ FailedRecordOnly(p)
                 /\ \A k \in (Pos(polls[p].msg.uid) + 1)..Len(enqueued') :
                      \/ QueueHas(messageQueue', enqueued'[k].uid)
                      \/ \E q \in Pollers \ {p} :
                           \/ PollHolds(polls'[q], enqueued'[k].uid)
                           \/ ResponseHas(polls'[q], enqueued'[k].uid)
                           \/ /\ \E i \in 1..Len(fetches') : fetches'[i] = enqueued'[k].uid
                              /\ \E i \in 1..Len(polls'[q].resp.body) :
                                   polls'[q].resp.body[i].kind = "text"
                                     /\ polls'[q].resp.body[i] # NoMessagesText]_vars
    /\ [](Cardinality(Lost) = Cardinality(AllUploadErrors))

\* three records were enqueued; one request returned the first and failed on
\* the second, and another poll has returned the third
C19_Witness ==
    \E p \in Pollers : \E q \in Pollers \ {p} :
        /\ Len(enqueued) = 3
        /\ polls[p].pc = "done" /\ polls[q].pc = "done"
        /\ InResponse(p, enqueued[1].uid)
        /\ Lost = {2}
        /\ Len(UploadErrors(polls[p].resp.body)) = 1
        /\ InResponse(q, enqueued[3].uid)
        /\ messageQueue = <<>>

=============================================================================
